---------------------------- MODULE Spec2Model ----------------------------
(***************************************************************************)
(* Model of the Dropbox web manager: the storage adapter DropboxService    *)
(* (src/utils.py) and the FastAPI route handlers (src/main.py).            *)
(*                                                                         *)
(* Strings are sequences of tokens: a literal chunk of a format string is  *)
(* one token, every character supplied by the user or by the provider is   *)
(* one token, and the URL delimiters "?", "&", "=" are tokens of their     *)
(* own, so that building a redirect URL and reading its query parameters   *)
(* back are two different computations.                                    *)
(*                                                                         *)
(* A remote SDK call is an input of the handler: its outcome is either     *)
(* [ok |-> TRUE, value |-> v] or [ok |-> FALSE, exc |-> e].                *)
(***************************************************************************)
EXTENDS Integers, Sequences, FiniteSets, TLC

VARIABLES
    DROPBOX_ACCESS_TOKEN, \* whether the environment holds the credential
    dbx_service,          \* the module-level adapter reference: "None" or "svc"
    request,              \* the last request served
    response,             \* the response it got
    invocations,          \* the adapter methods it invoked, in order
    tmp_files,            \* number of temporary files left on disk
    bytes_value,          \* _bytes_to_mb: the argument of the last application
    mb,                   \* _bytes_to_mb: its result, in hundredths of a MB
    prev_bytes,           \* _bytes_to_mb: the argument of the application before
    prev_mb               \* _bytes_to_mb: and its result

vars == <<DROPBOX_ACCESS_TOKEN, dbx_service, request, response, invocations,
          tmp_files, bytes_value, mb, prev_bytes, prev_mb>>

webVars == <<DROPBOX_ACCESS_TOKEN, dbx_service, request, response, invocations,
             tmp_files>>

bytesVars == <<bytes_value, mb, prev_bytes, prev_mb>>

-----------------------------------------------------------------------------
(* Bounds *)

MaxEntries == 2      \* entries in one remote folder listing
MaxLinks == 2        \* links in one remote shared-link listing
MaxMatches == 1      \* matches in one remote search result
MaxTmpFiles == 1     \* temporary files the model lets accumulate
MaxByteSteps == 12   \* _bytes_to_mb inputs: multiples of MB/16 up to this many
MaxByteOffset == 1   \* _bytes_to_mb inputs: plus 0..this many bytes

-----------------------------------------------------------------------------
(* Strings *)

RECURSIVE SeqsUpTo(_, _)
SeqsUpTo(S, n) ==
    IF n = 0 THEN {<<>>}
    ELSE LET shorter == SeqsUpTo(S, n - 1)
         IN  shorter \cup {Append(s, x) : s \in {t \in shorter : Len(t) = n - 1}, x \in S}

\* index of the first occurrence of token c in s, 0 when absent
RECURSIVE IndexOf(_, _, _)
IndexOf(s, c, i) ==
    IF i > Len(s) THEN 0
    ELSE IF s[i] = c THEN i
    ELSE IndexOf(s, c, i + 1)

\* str.split(c)
RECURSIVE Split(_, _)
Split(s, c) ==
    LET i == IndexOf(s, c, 1)
    IN  IF i = 0 THEN <<s>>
        ELSE <<SubSeq(s, 1, i - 1)>> \o Split(SubSeq(s, i + 1, Len(s)), c)

\* c.join(parts)
RECURSIVE Join(_, _)
Join(parts, c) ==
    IF parts = <<>> THEN <<>>
    ELSE IF Len(parts) = 1 THEN parts[1]
    ELSE parts[1] \o <<c>> \o Join(Tail(parts), c)

\* str.rstrip(c)
RECURSIVE RStrip(_, _)
RStrip(s, c) ==
    IF s # <<>> /\ s[Len(s)] = c THEN RStrip(SubSeq(s, 1, Len(s) - 1), c)
    ELSE s

StartsWith(s, p) == Len(s) >= Len(p) /\ SubSeq(s, 1, Len(p)) = p

\* the value of query parameter `key` of a URL, as the framework binds it for
\* the /folder handler: the first key=value pair of the query string; <<>>
\* (the declared default "") when the key is absent
RECURSIVE FirstParam(_, _)
FirstParam(pairs, key) ==
    IF pairs = <<>> THEN <<>>
    ELSE LET kv == pairs[1]
             e  == IndexOf(kv, "=", 1)
         IN  IF e > 0 /\ SubSeq(kv, 1, e - 1) = <<key>>
             THEN SubSeq(kv, e + 1, Len(kv))
             ELSE FirstParam(Tail(pairs), key)

UrlPath(url) ==
    LET q == IndexOf(url, "?", 1)
    IN  IF q = 0 THEN url ELSE SubSeq(url, 1, q - 1)

QueryParam(url, key) ==
    LET q == IndexOf(url, "?", 1)
    IN  IF q = 0 THEN <<>>
        ELSE FirstParam(Split(SubSeq(url, q + 1, Len(url)), "&"), key)

-----------------------------------------------------------------------------
(* Python values *)

None == <<"None">>                         \* None where a string may stand
NoneInt == [none |-> TRUE]                 \* None where a number may stand
Some(v) == [none |-> FALSE, v |-> v]

Dict(v) == [kind |-> "dict", val |-> v]    \* a dict return value
List(v) == [kind |-> "list", val |-> v]    \* a list return value
IsDict(ret) == ret.kind = "dict"           \* isinstance(x, dict)
HasError(ret) == IsDict(ret) /\ "error" \in DOMAIN ret.val   \* 'error' in x

\* an adapter method's invocation: how it ended and the remote calls it issued,
\* each with what the remote client answered
Return(m, ret, calls) == [method |-> m, raised |-> FALSE, ret |-> ret, calls |-> calls]
Raise(m, e, calls) == [method |-> m, raised |-> TRUE, exc |-> e, calls |-> calls]
Call(op, arg, o) == [op |-> op, arg |-> arg, ok |-> o.ok, answer |-> o]

-----------------------------------------------------------------------------
(* What the remote client can answer *)

ApiError(exists, msg) == [class |-> "ApiError", already_exists |-> exists, msg |-> msg]
OtherError(msg) == [class |-> "Exception", already_exists |-> FALSE, msg |-> msg]
AttributeError == OtherError(<<"no-attribute">>)
ZeroDivisionError == OtherError(<<"division-by-zero">>)

Ok(V) == {[ok |-> TRUE, value |-> v] : v \in V}
Fail(E) == {[ok |-> FALSE, exc |-> e] : e \in E}

Excs == {ApiError(FALSE, <<"api-error">>), OtherError(<<"network-error">>)}
CreateLinkExcs == Excs \cup {ApiError(TRUE, <<"link-exists">>)}

MB == 1024 * 1024
ByteStep == MB \div 16

Names == {<<"a">>, <<"b">>}
Paths == {<<>>, <<"/", "a">>, <<"/", "a", "&", "b">>}   \* submitted with a form
ViewPaths == {<<>>, <<"/", "a", "/", "b">>}               \* asked for with GET
ItemPaths == {<<"/", "a">>}

FileMetadata(n, s) ==
    [variant |-> "file", name |-> n, path_lower |-> <<"/">> \o n, size |-> s,
     server_modified |-> <<"t">>, content_hash |-> <<"h">>]
FolderMetadata(n) == [variant |-> "folder", name |-> n, path_lower |-> <<"/">> \o n]
DeletedMetadata(n) == [variant |-> "deleted", name |-> n, path_lower |-> <<"/">> \o n]

Metadatas ==
    {FileMetadata(<<"a">>, 3 * ByteStep), FolderMetadata(<<"b">>), DeletedMetadata(<<"a">>)}

Users ==
    {[display_name |-> <<"u">>, email |-> <<"m">>, country |-> <<"c">>,
      profile_photo_url |-> <<"p">>],
     [display_name |-> <<"u">>, email |-> <<"m">>]}

\* usage.allocation: the attributes the object has, the union tag it carries
\* and the number of bytes allocated (wherever the shape keeps it)
SdkUnionAttrs == {"get_individual", "is_individual"}
Allocations ==
    {[attrs |-> a, tag |-> t, allocated |-> n] :
        a \in {SdkUnionAttrs, {"allocated"}, {"is_individual"}, {}},
        t \in {"individual", "team"},
        n \in {0, 2 * MB}}
Usages == {[used |-> u, allocation |-> al] : u \in {0, 3 * MB}, al \in Allocations}

Links ==
    {[url |-> <<"l", "1">>, name |-> <<"a">>, path_lower |-> <<"/", "a">>],
     [url |-> <<"l", "2">>, name |-> <<"b">>]}
LinkLists == SeqsUpTo(Links, MaxLinks)

MatchTypes == {[value |-> <<"filename">>], [str |-> <<"MatchType">>]}
Matches ==
    {[metadata |-> [present |-> FALSE], match_type |-> [value |-> <<"filename">>]]}
        \cup {[metadata |-> [present |-> TRUE, inner |-> FolderMetadata(<<"b">>)],
               match_type |-> mt] : mt \in MatchTypes}

AccountOutcomes == Ok(Users) \cup Fail(Excs)
UsageOutcomes == Ok(Usages) \cup Fail(Excs)
ListFolderOutcomes == Ok(SeqsUpTo(Metadatas, MaxEntries)) \cup Fail(Excs)
CreateFolderOutcomes == Ok({[metadata |-> FolderMetadata(n)] : n \in Names}) \cup Fail(Excs)
DeleteOutcomes == Ok({[metadata |-> FolderMetadata(<<"a">>)]}) \cup Fail(Excs)
UploadOutcomes == Ok({FileMetadata(<<"a">>, 0)}) \cup Fail(Excs)
DownloadOutcomes ==
    Ok({<<FileMetadata(<<"a">>, 0), [content |-> <<"bytes">>]>>}) \cup Fail(Excs)
MetadataOutcomes == Ok(Metadatas) \cup Fail(Excs)
CreateLinkOutcomes == Ok({[url |-> <<"l", "0">>]}) \cup Fail(CreateLinkExcs)
ListLinksOutcomes == Ok({[links |-> ls] : ls \in LinkLists}) \cup Fail(Excs)
SearchOutcomes == Ok({[matches |-> ms] : ms \in SeqsUpTo(Matches, MaxMatches)}) \cup Fail(Excs)

-----------------------------------------------------------------------------
(* The storage adapter: DropboxService *)

str(e) == e.msg
ErrorRecord(msg) == Dict([error |-> msg])

\* round(n / d, 0) as Python rounds a float: to the nearest integer, a tie to
\* the even one (d > 0; n / d is exact here, d being a power of two)
RoundHalfEven(n, d) ==
    LET q == n \div d
        r == n % d
    IN  IF 2 * r < d THEN q
        ELSE IF 2 * r > d THEN q + 1
        ELSE IF q % 2 = 0 THEN q ELSE q + 1

\* a faulty variant: the quotient truncated to two decimals instead of rounded
bytes_to_mb_truncating(b) ==
    IF b.none THEN 0 ELSE (b.v * 100) \div MB

\* _bytes_to_mb; the result is in hundredths of a megabyte
bytes_to_mb(b) ==
    IF b.none THEN 0
    ELSE RoundHalfEven(b.v * 100, MB)

\* used / allocated * 100, kept exact as numerator and denominator
Ratio(n, d) == IF n = 0 THEN [num |-> 0, den |-> 1] ELSE [num |-> n, den |-> d]
Zero == [num |-> 0, den |-> 1]

\* the probing of usage.allocation: the allocated bytes, or the AttributeError
\* of get_individual() on a union that carries another tag or has no such method
allocated_of(allocation) ==
    IF "get_individual" \in allocation.attrs
    THEN IF allocation.tag = "individual"
         THEN [raised |-> FALSE, value |-> allocation.allocated]
         ELSE [raised |-> TRUE, exc |-> AttributeError]
    ELSE IF "allocated" \in allocation.attrs
    THEN [raised |-> FALSE, value |-> allocation.allocated]
    ELSE IF "is_individual" \in allocation.attrs /\ allocation.tag = "individual"
    THEN [raised |-> TRUE, exc |-> AttributeError]
    ELSE [raised |-> FALSE, value |-> 0]

get_user_info(o) ==
    LET calls == <<Call("users_get_current_account", <<>>, o)>>
    IN  IF o.ok
        THEN LET user == o.value
             IN  Return("get_user_info",
                        Dict([name |-> user.display_name,
                              email |-> user.email,
                              country |-> IF "country" \in DOMAIN user
                                          THEN user.country ELSE None,
                              profile_photo_url |->
                                  IF "profile_photo_url" \in DOMAIN user
                                  THEN user.profile_photo_url ELSE None]),
                        calls)
        ELSE Return("get_user_info", ErrorRecord(str(o.exc)), calls)

\* a faulty variant: the percentage computed without the allocated > 0 guard
get_storage_info_unguarded(o) ==
    LET calls == <<Call("users_get_space_usage", <<>>, o)>>
    IN  IF ~o.ok THEN Return("get_storage_info", ErrorRecord(str(o.exc)), calls)
        ELSE LET a == allocated_of(o.value.allocation)
             IN  IF a.raised
                 THEN Return("get_storage_info", ErrorRecord(str(a.exc)), calls)
                 ELSE IF a.value = 0
                 THEN Return("get_storage_info", ErrorRecord(str(ZeroDivisionError)), calls)
                 ELSE Return("get_storage_info",
                             Dict([used |-> bytes_to_mb(Some(o.value.used)),
                                   allocated |-> bytes_to_mb(Some(a.value)),
                                   free |-> bytes_to_mb(Some(a.value - o.value.used)),
                                   used_percentage |-> Ratio(o.value.used * 100, a.value)]),
                             calls)

get_storage_info(o) ==
    LET calls == <<Call("users_get_space_usage", <<>>, o)>>
    IN  IF ~o.ok THEN Return("get_storage_info", ErrorRecord(str(o.exc)), calls)
        ELSE LET used == o.value.used
                 a == allocated_of(o.value.allocation)
             IN  IF a.raised
                 THEN Return("get_storage_info", ErrorRecord(str(a.exc)), calls)
                 ELSE LET allocated == a.value
                          free == IF allocated > 0 THEN allocated - used ELSE 0
                      IN  Return("get_storage_info",
                                 Dict([used |-> bytes_to_mb(Some(used)),
                                       allocated |-> bytes_to_mb(Some(allocated)),
                                       free |-> bytes_to_mb(Some(free)),
                                       used_percentage |->
                                           IF allocated > 0
                                           THEN Ratio(used * 100, allocated)
                                           ELSE Zero]),
                                 calls)

\* a faulty variant: whatever is not a file is taken for a folder
list_folder_item_not_file(entry) ==
    IF entry.variant = "file"
    THEN [name |-> entry.name, path |-> entry.path_lower, is_folder |-> FALSE,
          size |-> entry.size, modified |-> entry.server_modified,
          size_mb |-> bytes_to_mb(Some(entry.size))]
    ELSE [name |-> entry.name, path |-> entry.path_lower, is_folder |-> TRUE]

\* the item list_folder builds for one remote entry
list_folder_item(entry) ==
    LET item == [name |-> entry.name, path |-> entry.path_lower,
                 is_folder |-> entry.variant = "folder"]
    IN  IF entry.variant = "file"
        THEN [size |-> entry.size, modified |-> entry.server_modified,
              size_mb |-> bytes_to_mb(Some(entry.size))] @@ item
        ELSE item

list_folder(path, o) ==
    LET calls == <<Call("files_list_folder", path, o)>>
    IN  IF o.ok
        THEN Return("list_folder",
                    List([i \in 1..Len(o.value) |-> list_folder_item(o.value[i])]),
                    calls)
        ELSE Return("list_folder", ErrorRecord(str(o.exc)), calls)

create_folder(path, o) ==
    LET calls == <<Call("files_create_folder_v2", path, o)>>
    IN  IF o.ok
        THEN Return("create_folder",
                    Dict([success |-> TRUE, folder |-> o.value.metadata.name]), calls)
        ELSE Return("create_folder", ErrorRecord(str(o.exc)), calls)

\* a faulty variant: a failed delete is issued a second time
delete_item_retrying(path, o) ==
    LET call == Call("files_delete_v2", path, o)
    IN  IF o.ok THEN Return("delete_item", Dict([success |-> TRUE]), <<call>>)
        ELSE Return("delete_item", ErrorRecord(str(o.exc)), <<call, call>>)

delete_item(path, o) ==
    LET calls == <<Call("files_delete_v2", path, o)>>
    IN  IF o.ok THEN Return("delete_item", Dict([success |-> TRUE]), calls)
        ELSE Return("delete_item", ErrorRecord(str(o.exc)), calls)

upload_file(file_content, path, o) ==
    LET calls == <<Call("files_upload", path, o)>>
    IN  IF o.ok
        THEN Return("upload_file", Dict([success |-> TRUE, file |-> o.value.name]), calls)
        ELSE Return("upload_file", ErrorRecord(str(o.exc)), calls)

download_file(path, o) ==
    LET calls == <<Call("files_download", path, o)>>
    IN  IF o.ok
        THEN Return("download_file",
                    Dict([success |-> TRUE, content |-> o.value[2].content,
                          filename |-> o.value[1].name]),
                    calls)
        ELSE Return("download_file", ErrorRecord(str(o.exc)), calls)

get_metadata(path, o) ==
    LET calls == <<Call("files_get_metadata", path, o)>>
    IN  IF o.ok
        THEN LET metadata == o.value
                 result == [name |-> metadata.name, path |-> metadata.path_lower,
                            is_folder |-> metadata.variant = "folder"]
             IN  Return("get_metadata",
                        Dict(IF metadata.variant = "file"
                             THEN [size |-> metadata.size,
                                   size_mb |-> bytes_to_mb(Some(metadata.size)),
                                   modified |-> metadata.server_modified,
                                   content_hash |-> IF "content_hash" \in DOMAIN metadata
                                                    THEN metadata.content_hash ELSE None]
                                  @@ result
                             ELSE result),
                        calls)
        ELSE Return("get_metadata", ErrorRecord(str(o.exc)), calls)

\* a faulty variant: the fallback lookup is not wrapped in its own try/except
create_shared_link_unprotected_lookup(path, o1, o2) ==
    LET call1 == Call("sharing_create_shared_link_with_settings", path, o1)
        call2 == Call("sharing_list_shared_links", path, o2)
    IN  IF o1.ok
        THEN Return("create_shared_link", Dict([success |-> TRUE, url |-> o1.value.url]),
                    <<call1>>)
        ELSE IF o1.exc.class = "ApiError" /\ o1.exc.already_exists
        THEN IF ~o2.ok THEN Raise("create_shared_link", o2.exc, <<call1, call2>>)
             ELSE IF o2.value.links # <<>>
             THEN Return("create_shared_link",
                         Dict([success |-> TRUE, url |-> o2.value.links[1].url]),
                         <<call1, call2>>)
             ELSE Return("create_shared_link", ErrorRecord(str(o1.exc)), <<call1, call2>>)
        ELSE Return("create_shared_link", ErrorRecord(str(o1.exc)), <<call1>>)

\* a faulty variant: the conflict is reported without looking the existing link up
create_shared_link_no_fallback(path, o1, o2) ==
    LET call1 == Call("sharing_create_shared_link_with_settings", path, o1)
    IN  IF o1.ok
        THEN Return("create_shared_link", Dict([success |-> TRUE, url |-> o1.value.url]),
                    <<call1>>)
        ELSE Return("create_shared_link", ErrorRecord(str(o1.exc)), <<call1>>)

\* o1 answers sharing_create_shared_link_with_settings, o2 answers the
\* sharing_list_shared_links(path) lookup if it is issued
create_shared_link(path, o1, o2) ==
    LET call1 == Call("sharing_create_shared_link_with_settings", path, o1)
        call2 == Call("sharing_list_shared_links", path, o2)
    IN  IF o1.ok
        THEN Return("create_shared_link", Dict([success |-> TRUE, url |-> o1.value.url]),
                    <<call1>>)
        ELSE IF o1.exc.class = "ApiError"                  \* except ApiError as e
        THEN IF o1.exc.already_exists
             THEN IF o2.ok /\ o2.value.links # <<>>
                  THEN Return("create_shared_link",
                              Dict([success |-> TRUE, url |-> o2.value.links[1].url]),
                              <<call1, call2>>)
                  \* an empty list, or the bare except swallowing the lookup's failure
                  ELSE Return("create_shared_link", ErrorRecord(str(o1.exc)),
                              <<call1, call2>>)
             ELSE Return("create_shared_link", ErrorRecord(str(o1.exc)), <<call1>>)
        ELSE Return("create_shared_link", ErrorRecord(str(o1.exc)), <<call1>>)

list_shared_links(o) ==
    LET calls == <<Call("sharing_list_shared_links", <<>>, o)>>
    IN  IF o.ok
        THEN Return("list_shared_links",
                    List([i \in 1..Len(o.value.links) |->
                            LET link == o.value.links[i]
                            IN  [url |-> link.url, name |-> link.name,
                                 path |-> IF "path_lower" \in DOMAIN link
                                          THEN link.path_lower ELSE None]]),
                    calls)
        ELSE Return("list_shared_links", ErrorRecord(str(o.exc)), calls)

\* the dict search builds for one match that has metadata
search_match(match) ==
    LET metadata == match.metadata.inner   \* through get_metadata() or directly
    IN  [name |-> metadata.name, path |-> metadata.path_lower,
         is_folder |-> metadata.variant = "folder",
         match_type |-> IF "value" \in DOMAIN match.match_type
                        THEN match.match_type.value ELSE match.match_type.str]

search(query, path, o) ==
    LET calls == <<Call("files_search_v2", query, o)>>
    IN  IF o.ok
        THEN LET kept == SelectSeq(o.value.matches, LAMBDA m : m.metadata.present)
             IN  Return("search", List([i \in 1..Len(kept) |-> search_match(kept[i])]), calls)
        ELSE Return("search", ErrorRecord(<<"search-error: ">> \o str(o.exc)), calls)

-----------------------------------------------------------------------------
(* The web layer: responses *)

TemplateResponse(name, ctx) ==
    [kind |-> "template", status |-> 200, template |-> name, ctx |-> ctx]
RedirectResponse(url, status) == [kind |-> "redirect", status |-> status, url |-> url]
JSONResponse(content, status) == [kind |-> "json", status |-> status, content |-> content]
FileResponse(path, filename) ==
    [kind |-> "file", status |-> 200, path |-> path, filename |-> filename]
\* a raised HTTPException, which the framework answers with its status and detail
HTTPException(status, detail) ==
    [kind |-> "http_exception", status |-> status, detail |-> detail]
\* a dict or list returned by the handler, which the framework serialises
Returned(ret) == [kind |-> "json", status |-> 200, content |-> ret]
\* an exception nothing catches
ServerError == [kind |-> "server_error", status |-> 500]

NotInitialized == <<"service not initialized">>
NotInitializedCheckToken == NotInitialized \o <<". check the token">>

\* str() of an HTTPException built with keyword arguments: "<status>: <detail>"
\* where the framework's class defines __str__, "" where it does not (the
\* exception then has no positional args); has_str is which of the two
HTTPException_str(e, has_str) ==
    IF has_str
    THEN <<IF e.status = 400 THEN "400" ELSE "500", ": ">> \o e.detail
    ELSE <<>>

\* f"/folder?path={path}&{key}={text}"
FolderUrl(path, key, text) ==
    <<"/folder", "?", "path", "=">> \o path \o <<"&", key, "=">> \o text

\* what a handler did: its response, the adapter methods it invoked and the
\* number of temporary files it left behind
Result(resp, invs, tmp) == [response |-> resp, invocations |-> invs, tmp |-> tmp]

RootFolder == [name |-> <<"root">>, path |-> <<>>]

-----------------------------------------------------------------------------
(* The web layer: route handlers.  svc is dbx_service; the o's are what the  *)
(* remote client answers to the calls the handler causes.                   *)

route_dashboard(svc, o1, o2) ==
    IF svc = "None"
    THEN Result(TemplateResponse("error.html", [error |-> NotInitializedCheckToken]), <<>>, 0)
    ELSE LET user_info == get_user_info(o1)
             storage_info == get_storage_info(o2)
         IN  IF user_info.raised
             THEN Result(TemplateResponse("error.html",
                             [error |-> <<"load error: ">> \o str(user_info.exc)]),
                         <<user_info>>, 0)
             ELSE IF storage_info.raised
             THEN Result(TemplateResponse("error.html",
                             [error |-> <<"load error: ">> \o str(storage_info.exc)]),
                         <<user_info, storage_info>>, 0)
             ELSE Result(TemplateResponse("dashboard.html",
                             [user_info |-> user_info.ret,
                              storage_info |-> storage_info.ret]),
                         <<user_info, storage_info>>, 0)

\* parent_path of the /folder handler
parent_path_of(path) ==
    IF path = <<>> THEN <<>>
    ELSE LET path_parts == Split(RStrip(path, "/"), "/")
         IN  IF Len(path_parts) > 1
             THEN Join(SubSeq(path_parts, 1, Len(path_parts) - 1), "/")
             ELSE <<>>

route_list_folder(svc, path, o1, o2) ==
    IF svc = "None"
    THEN Result(TemplateResponse("error.html", [error |-> NotInitialized]), <<>>, 0)
    ELSE LET meta == get_metadata(path, o1)
             before == IF path # <<>> THEN <<meta>> ELSE <<>>
             items == list_folder(path, o2)
         IN  IF path # <<>> /\ meta.raised
             THEN Result(TemplateResponse("error.html", [error |-> str(meta.exc)]),
                         before, 0)
             ELSE IF items.raised
             THEN Result(TemplateResponse("error.html", [error |-> str(items.exc)]),
                         Append(before, items), 0)
             ELSE Result(TemplateResponse("folder.html",
                             [items |-> IF ~IsDict(items.ret) THEN items.ret.val ELSE <<>>,
                              current_folder |->
                                  IF path # <<>> /\ ~HasError(meta.ret)
                                  THEN meta.ret.val ELSE RootFolder,
                              current_path |-> path,
                              parent_path |-> parent_path_of(path),
                              error |-> IF IsDict(items.ret)
                                        THEN (IF "error" \in DOMAIN items.ret.val
                                              THEN items.ret.val.error ELSE None)
                                        ELSE None]),
                         Append(before, items), 0)

route_create_folder(svc, path, folder_name, o) ==
    IF svc = "None" THEN Result(HTTPException(500, NotInitialized), <<>>, 0)
    ELSE LET folder_path == IF path # <<>> THEN path \o <<"/">> \o folder_name
                            ELSE <<"/">> \o folder_name
             result == create_folder(folder_path, o)
         IN  IF result.raised
             THEN Result(RedirectResponse(FolderUrl(path, "error", str(result.exc)), 302),
                         <<result>>, 0)
             ELSE IF HasError(result.ret)
             THEN Result(RedirectResponse(FolderUrl(path, "error", result.ret.val.error), 302),
                         <<result>>, 0)
             ELSE Result(RedirectResponse(
                             FolderUrl(path, "success",
                                       <<"folder '">> \o folder_name \o <<"' created">>),
                             302),
                         <<result>>, 0)

route_delete_item(svc, item_path, current_path, o) ==
    IF svc = "None" THEN Result(HTTPException(500, NotInitialized), <<>>, 0)
    ELSE LET result == delete_item(item_path, o)
         IN  IF result.raised
             THEN Result(RedirectResponse(
                             FolderUrl(current_path, "error", str(result.exc)), 302),
                         <<result>>, 0)
             ELSE IF HasError(result.ret)
             THEN Result(RedirectResponse(
                             FolderUrl(current_path, "error", result.ret.val.error), 302),
                         <<result>>, 0)
             ELSE Result(RedirectResponse(
                             FolderUrl(current_path, "success", <<"item deleted">>), 302),
                         <<result>>, 0)

route_upload_page(path) ==
    Result(TemplateResponse("upload.html", [current_path |-> path]), <<>>, 0)

\* reading and closing the uploaded file touch nothing but the request itself
route_upload_file(svc, path, filename, file_content, o) ==
    IF svc = "None" THEN Result(HTTPException(500, NotInitialized), <<>>, 0)
    ELSE LET file_path == IF path # <<>> THEN path \o <<"/">> \o filename
                          ELSE <<"/">> \o filename
             result == upload_file(file_content, file_path, o)
         IN  IF result.raised
             THEN Result(RedirectResponse(FolderUrl(path, "error", str(result.exc)), 302),
                         <<result>>, 0)
             ELSE IF HasError(result.ret)
             THEN Result(RedirectResponse(FolderUrl(path, "error", result.ret.val.error), 302),
                         <<result>>, 0)
             ELSE Result(RedirectResponse(
                             FolderUrl(path, "success",
                                       <<"file '">> \o filename \o <<"' uploaded">>),
                             302),
                         <<result>>, 0)

\* has_str: whether str() of the HTTPException raised inside the try block
\* yields its status and detail (see HTTPException_str)
route_download_file(svc, file_path, o, has_str) ==
    IF svc = "None" THEN Result(HTTPException(500, NotInitialized), <<>>, 0)
    ELSE LET result == download_file(file_path, o)
         IN  IF result.raised
             THEN Result(HTTPException(400, str(result.exc)), <<result>>, 0)
             ELSE IF HasError(result.ret)
             \* raised inside the try block, caught by `except Exception` below it
             THEN Result(HTTPException(400,
                             HTTPException_str(HTTPException(400, result.ret.val.error),
                                               has_str)),
                         <<result>>, 0)
             \* NamedTemporaryFile(delete=False): written, closed, never removed
             ELSE Result(FileResponse(<<"tmp">> \o result.ret.val.filename,
                                      result.ret.val.filename),
                         <<result>>, 1)

route_create_shared_link(svc, item_path, current_path, o1, o2) ==
    IF svc = "None" THEN Result(HTTPException(500, NotInitialized), <<>>, 0)
    ELSE LET result == create_shared_link(item_path, o1, o2)
         IN  IF result.raised
             THEN Result(RedirectResponse(
                             FolderUrl(current_path, "error", str(result.exc)), 302),
                         <<result>>, 0)
             ELSE IF HasError(result.ret)
             THEN Result(RedirectResponse(
                             FolderUrl(current_path, "error", result.ret.val.error), 302),
                         <<result>>, 0)
             ELSE Result(RedirectResponse(
                             FolderUrl(current_path, "success",
                                       <<"link created: ">> \o result.ret.val.url),
                             302),
                         <<result>>, 0)

\* a faulty variant: the handler without its `if not dbx_service` guard; the method
\* call on None raises AttributeError, which the handler's except renders
route_shared_links_unguarded(svc, o) ==
    IF svc = "None"
    THEN Result(TemplateResponse("error.html", [error |-> str(AttributeError)]), <<>>, 0)
    ELSE LET links == list_shared_links(o)
         IN  Result(TemplateResponse("shared_links.html",
                        [links |-> IF ~IsDict(links.ret) THEN links.ret.val ELSE <<>>,
                         error |-> IF HasError(links.ret) THEN links.ret.val.error ELSE None]),
                    <<links>>, 0)

route_shared_links(svc, o) ==
    IF svc = "None"
    THEN Result(TemplateResponse("error.html", [error |-> NotInitialized]), <<>>, 0)
    ELSE LET links == list_shared_links(o)
         IN  IF links.raised
             THEN Result(TemplateResponse("error.html", [error |-> str(links.exc)]),
                         <<links>>, 0)
             ELSE Result(TemplateResponse("shared_links.html",
                             [links |-> IF ~IsDict(links.ret) THEN links.ret.val ELSE <<>>,
                              error |-> IF IsDict(links.ret)
                                        THEN (IF "error" \in DOMAIN links.ret.val
                                              THEN links.ret.val.error ELSE None)
                                        ELSE None]),
                         <<links>>, 0)

route_search_files(svc, q, path, o) ==
    IF svc = "None"
    THEN Result(TemplateResponse("error.html", [error |-> NotInitialized]), <<>>, 0)
    ELSE LET results == IF q # <<>> THEN search(q, path, o)
                        ELSE Return("none", List(<<>>), <<>>)   \* results = []
             invs == IF q # <<>> THEN <<results>> ELSE <<>>
         IN  IF results.raised
             THEN Result(TemplateResponse("error.html", [error |-> str(results.exc)]),
                         invs, 0)
             ELSE Result(TemplateResponse("search.html",
                             [query |-> q,
                              search_path |-> path,
                              results |-> IF ~IsDict(results.ret)
                                          THEN results.ret.val ELSE <<>>,
                              error |-> IF IsDict(results.ret)
                                        THEN (IF "error" \in DOMAIN results.ret.val
                                              THEN results.ret.val.error ELSE None)
                                        ELSE None]),
                         invs, 0)

route_get_metadata(svc, file_path, o) ==
    IF svc = "None" THEN Result(HTTPException(500, NotInitialized), <<>>, 0)
    ELSE LET metadata == get_metadata(file_path, o)
         IN  IF metadata.raised
             THEN Result(JSONResponse([error |-> str(metadata.exc)], 400), <<metadata>>, 0)
             ELSE IF HasError(metadata.ret)
             THEN Result(JSONResponse([error |-> metadata.ret.val.error], 400),
                         <<metadata>>, 0)
             ELSE Result(JSONResponse([success |-> TRUE, metadata |-> metadata.ret.val], 200),
                         <<metadata>>, 0)

route_status(svc, token) ==
    Result(Returned(Dict([status |-> "ok",
                          dropbox_initialized |-> svc # "None",
                          token_exists |-> token])),
           <<>>, 0)

route_api_get_user(svc, o) ==
    IF svc = "None" THEN Result(HTTPException(500, NotInitialized), <<>>, 0)
    ELSE LET r == get_user_info(o)
         IN  Result(IF r.raised THEN ServerError ELSE Returned(r.ret), <<r>>, 0)

route_api_get_storage(svc, o) ==
    IF svc = "None" THEN Result(HTTPException(500, NotInitialized), <<>>, 0)
    ELSE LET r == get_storage_info(o)
         IN  Result(IF r.raised THEN ServerError ELSE Returned(r.ret), <<r>>, 0)

route_api_list_folder(svc, path, o) ==
    IF svc = "None" THEN Result(HTTPException(500, NotInitialized), <<>>, 0)
    ELSE LET r == list_folder(path, o)
         IN  Result(IF r.raised THEN ServerError ELSE Returned(r.ret), <<r>>, 0)

\* the module-level initialisation of dbx_service: None without the token, or
\* when constructing DropboxService raises
startup(token, constructed) ==
    IF ~token THEN "None"
    ELSE IF constructed THEN "svc" ELSE "None"

-----------------------------------------------------------------------------
(* The process: start-up, then one action per request *)

Queries == {<<>>, <<"a">>}
ByteInputs ==
    {NoneInt} \cup {Some(k * ByteStep + d) : k \in 0..MaxByteSteps, d \in 0..MaxByteOffset}

IdleBytes ==
    /\ bytes_value = NoneInt
    /\ mb = bytes_to_mb(NoneInt)
    /\ prev_bytes = NoneInt
    /\ prev_mb = bytes_to_mb(NoneInt)

Init ==
    /\ DROPBOX_ACCESS_TOKEN \in BOOLEAN
    /\ \E constructed \in BOOLEAN :
           dbx_service = startup(DROPBOX_ACCESS_TOKEN, constructed)
    /\ request = [route |-> "none"]
    /\ response = [kind |-> "none", status |-> 0]
    /\ invocations = <<>>
    /\ tmp_files = 0
    /\ IdleBytes

Serve(req, res) ==
    /\ request' = req
    /\ response' = res.response
    /\ invocations' = res.invocations
    /\ tmp_files' = tmp_files + res.tmp
    /\ UNCHANGED <<DROPBOX_ACCESS_TOKEN, dbx_service>>
    /\ UNCHANGED bytesVars

GetDashboard ==
    \E o1 \in AccountOutcomes, o2 \in UsageOutcomes :
        Serve([route |-> "/"], route_dashboard(dbx_service, o1, o2))

GetFolder ==
    \E path \in ViewPaths, o1 \in MetadataOutcomes, o2 \in ListFolderOutcomes :
        Serve([route |-> "/folder", path |-> path],
              route_list_folder(dbx_service, path, o1, o2))

PostCreateFolder ==
    \E path \in Paths, folder_name \in Names, o \in CreateFolderOutcomes :
        Serve([route |-> "/create-folder", path |-> path, folder_name |-> folder_name],
              route_create_folder(dbx_service, path, folder_name, o))

PostDelete ==
    \E item_path \in ItemPaths, current_path \in Paths, o \in DeleteOutcomes :
        Serve([route |-> "/delete", item_path |-> item_path, current_path |-> current_path],
              route_delete_item(dbx_service, item_path, current_path, o))

GetUpload ==
    \E path \in ViewPaths :
        Serve([route |-> "GET /upload", path |-> path], route_upload_page(path))

PostUpload ==
    \E path \in Paths, filename \in Names, o \in UploadOutcomes :
        Serve([route |-> "POST /upload", path |-> path, filename |-> filename],
              route_upload_file(dbx_service, path, filename, <<"bytes">>, o))

GetDownload ==
    /\ tmp_files < MaxTmpFiles
    /\ \E file_path \in ItemPaths, o \in DownloadOutcomes, has_str \in BOOLEAN :
           Serve([route |-> "/download", file_path |-> file_path],
                 route_download_file(dbx_service, file_path, o, has_str))

PostShare ==
    \E item_path \in ItemPaths, current_path \in Paths,
       o1 \in CreateLinkOutcomes, o2 \in ListLinksOutcomes :
        Serve([route |-> "/share", item_path |-> item_path, current_path |-> current_path],
              route_create_shared_link(dbx_service, item_path, current_path, o1, o2))

GetSharedLinks ==
    \E o \in ListLinksOutcomes :
        Serve([route |-> "/shared-links"], route_shared_links(dbx_service, o))

GetSearch ==
    \E q \in Queries, path \in ViewPaths, o \in SearchOutcomes :
        Serve([route |-> "/search", q |-> q, path |-> path],
              route_search_files(dbx_service, q, path, o))

GetMetadata ==
    \E file_path \in ItemPaths, o \in MetadataOutcomes :
        Serve([route |-> "/metadata", file_path |-> file_path],
              route_get_metadata(dbx_service, file_path, o))

GetStatus ==
    Serve([route |-> "/status"], route_status(dbx_service, DROPBOX_ACCESS_TOKEN))

GetApiUser ==
    \E o \in AccountOutcomes :
        Serve([route |-> "/api/user"], route_api_get_user(dbx_service, o))

GetApiStorage ==
    \E o \in UsageOutcomes :
        Serve([route |-> "/api/storage"], route_api_get_storage(dbx_service, o))

GetApiFolder ==
    \E path \in ViewPaths, o \in ListFolderOutcomes :
        Serve([route |-> "/api/folder", path |-> path],
              route_api_list_folder(dbx_service, path, o))

Next ==
    \/ GetDashboard
    \/ GetFolder
    \/ PostCreateFolder
    \/ PostDelete
    \/ GetUpload
    \/ PostUpload
    \/ GetDownload
    \/ PostShare
    \/ GetSharedLinks
    \/ GetSearch
    \/ GetMetadata
    \/ GetStatus
    \/ GetApiUser
    \/ GetApiStorage
    \/ GetApiFolder

Spec == Init /\ [][Next]_vars

-----------------------------------------------------------------------------
(* _bytes_to_mb on its own: every application of it to an input *)

InitBytes ==
    /\ DROPBOX_ACCESS_TOKEN = FALSE
    /\ dbx_service = startup(FALSE, FALSE)
    /\ request = [route |-> "none"]
    /\ response = [kind |-> "none", status |-> 0]
    /\ invocations = <<>>
    /\ tmp_files = 0
    /\ IdleBytes

Convert ==
    /\ \E b \in ByteInputs :
           /\ bytes_value' = b
           /\ mb' = bytes_to_mb(b)
    /\ prev_bytes' = bytes_value
    /\ prev_mb' = mb
    /\ UNCHANGED webVars

NextBytes == Convert

SpecBytes == InitBytes /\ [][NextBytes]_vars

-----------------------------------------------------------------------------
(* Properties *)

Invocations == {invocations[i] : i \in DOMAIN invocations}
AnyFailed(inv) == \E i \in DOMAIN inv.calls : ~inv.calls[i].ok
LastFailed(inv) == inv.calls # <<>> /\ ~inv.calls[Len(inv.calls)].ok
IsErrorRecord(inv) ==
    ~inv.raised /\ HasError(inv.ret) /\ inv.ret.val.error # <<>>
Errors == {inv \in Invocations : ~inv.raised /\ HasError(inv.ret)}
Contains(s, sub) ==
    \E i \in 1..(Len(s) + 1) :
        i + Len(sub) - 1 <= Len(s) /\ SubSeq(s, i, i + Len(sub) - 1) = sub

\* create_shared_link met "already exists" and its lookup found a link
RecoveredLink(inv) ==
    /\ inv.method = "create_shared_link"
    /\ Len(inv.calls) = 2
    /\ ~inv.calls[1].ok
    /\ inv.calls[1].answer.exc.already_exists
    /\ inv.calls[2].ok
    /\ inv.calls[2].answer.value.links # <<>>

\* C1, as claimed: whenever a remote call inside an adapter method throws, the
\* method returns an error record carrying a message and does not raise.
C1_EveryExceptionBecomesErrorRecord ==
    \A inv \in Invocations :
        /\ ~inv.raised
        /\ AnyFailed(inv) => IsErrorRecord(inv)

\* C1, amended: no adapter method raises; when a remote call inside it throws
\* it returns an error record carrying a message, except create_shared_link
\* whose create call threw "already exists" and whose lookup then returned a
\* non-empty list, which returns a success record with a url.  A method whose
\* last remote call threw always returns an error record.
C1_ExceptionsConverted ==
    \A inv \in Invocations :
        /\ ~inv.raised
        /\ LastFailed(inv) => IsErrorRecord(inv)
        /\ AnyFailed(inv) =>
               \/ IsErrorRecord(inv)
               \/ RecoveredLink(inv) /\ ~HasError(inv.ret) /\ "url" \in DOMAIN inv.ret.val

\* C1 witness: create_shared_link whose lookup threw while it was handling
\* the "already exists" failure, and which returned an error record.
C1_Witness ==
    \E inv \in Invocations :
        /\ inv.method = "create_shared_link"
        /\ Len(inv.calls) = 2
        /\ ~inv.calls[1].ok /\ ~inv.calls[2].ok
        /\ IsErrorRecord(inv)

HtmlRoutes == {"/", "/folder", "/shared-links", "/search"}
FormRoutes == {"/create-folder", "/delete", "POST /upload", "/share"}
JsonRoutes == {"/metadata", "/download", "/api/user", "/api/storage", "/api/folder"}
DataRoutes == HtmlRoutes \cup FormRoutes \cup JsonRoutes

\* C2: without the credential the adapter is None, and while it is None every
\* data route answers "service not initialized" -- the HTML routes with the
\* rendered error page, all others with HTTP 500 -- and calls nothing remote.
C2_NotInitialized ==
    /\ ~DROPBOX_ACCESS_TOKEN => dbx_service = "None"
    /\ dbx_service = "None" /\ request.route \in DataRoutes =>
           /\ invocations = <<>>
           /\ request.route \in HtmlRoutes =>
                  /\ response.kind = "template"
                  /\ response.template = "error.html"
                  /\ StartsWith(response.ctx.error, NotInitialized)
           /\ request.route \notin HtmlRoutes =>
                  /\ response.kind = "http_exception"
                  /\ response.status = 500
                  /\ response.detail = NotInitialized

\* C2 witness: the credential is absent and /shared-links was asked for.
C2_Witness ==
    /\ ~DROPBOX_ACCESS_TOKEN
    /\ dbx_service = "None"
    /\ request.route = "/shared-links"
    /\ response.kind = "template"
    /\ invocations = <<>>

\* the message a JSON response carries
JsonMessage(resp) ==
    IF resp.kind = "http_exception" THEN resp.detail
    ELSE IF resp.kind = "json" /\ ~("kind" \in DOMAIN resp.content)
            /\ "error" \in DOMAIN resp.content
    THEN resp.content.error
    ELSE IF resp.kind = "json" /\ "kind" \in DOMAIN resp.content
            /\ HasError(resp.content)
    THEN resp.content.val.error
    ELSE <<>>

\* C3, as claimed: on a JSON/API route an adapter error record is answered
\* with a 4xx or 5xx status, never with a 2xx, and a JSON body carries the
\* record's message.  (The detail of /download's HTTPException is left out of
\* the statement: it depends on HTTPException_str.)
C3_JsonErrorStatus ==
    request.route \in JsonRoutes =>
        \A inv \in Errors :
            /\ response.status \in 400..599
            /\ response.kind = "json" =>
                   Contains(JsonMessage(response), inv.ret.val.error)

\* create_shared_link whose create call threw "shared link already exists"
LinkConflicts ==
    {inv \in Invocations :
        /\ inv.method = "create_shared_link"
        /\ ~inv.calls[1].ok
        /\ inv.calls[1].answer.exc.already_exists}

\* C4, as claimed: after "shared link already exists" create_shared_link
\* returns a success record with a url, whatever the lookup answers.
C4_ConflictAlwaysSucceeds ==
    \A inv \in LinkConflicts :
        /\ ~inv.raised
        /\ ~HasError(inv.ret)
        /\ "url" \in DOMAIN inv.ret.val

\* C4, amended: after "shared link already exists" create_shared_link issues
\* the lookup; when the lookup returns a non-empty list it returns a success
\* record whose url is the first returned link's; when the lookup returns an
\* empty list or throws it returns an error record carrying the message of
\* the "already exists" failure.
C4_ConflictFallsBackToLookup ==
    \A inv \in LinkConflicts :
        /\ ~inv.raised
        /\ Len(inv.calls) = 2
        /\ inv.calls[2].op = "sharing_list_shared_links"
        /\ inv.calls[2].arg = inv.calls[1].arg
        /\ IF inv.calls[2].ok /\ inv.calls[2].answer.value.links # <<>>
           THEN inv.ret = Dict([success |-> TRUE,
                                url |-> inv.calls[2].answer.value.links[1].url])
           ELSE inv.ret = ErrorRecord(inv.calls[1].answer.exc.msg)

\* C4 witness: the conflict, a lookup that returned two different links, and
\* the first one's url returned.
C4_Witness ==
    \E inv \in LinkConflicts :
        /\ inv.calls[2].ok
        /\ Len(inv.calls[2].answer.value.links) = 2
        /\ inv.calls[2].answer.value.links[1].url # inv.calls[2].answer.value.links[2].url
        /\ inv.ret.val.url = inv.calls[2].answer.value.links[1].url

\* the current folder a form route was submitted with
CurrentFolder(req) ==
    IF req.route \in {"/delete", "/share"} THEN req.current_path ELSE req.path

\* whether a rendered page carries message msg in its context
PageCarries(resp, msg) ==
    /\ resp.kind = "template"
    /\ \/ "error" \in DOMAIN resp.ctx /\ resp.ctx.error = msg
       \/ /\ "user_info" \in DOMAIN resp.ctx
          /\ \/ HasError(resp.ctx.user_info) /\ resp.ctx.user_info.val.error = msg
             \/ HasError(resp.ctx.storage_info) /\ resp.ctx.storage_info.val.error = msg

\* C5, as claimed: with the adapter initialized, an adapter error record makes
\* a form route redirect (302) to /folder with path = the submitted current
\* folder and error = the record's message, and makes a read HTML route render
\* a page carrying the message.
C5_ErrorsShown ==
    dbx_service # "None" =>
        \A inv \in Errors :
            /\ request.route \in FormRoutes =>
                   /\ response.kind = "redirect"
                   /\ response.status = 302
                   /\ UrlPath(response.url) = <<"/folder">>
                   /\ QueryParam(response.url, "path") = CurrentFolder(request)
                   /\ QueryParam(response.url, "error") = inv.ret.val.error
            /\ request.route \in HtmlRoutes => PageCarries(response, inv.ret.val.error)

\* get_storage_info whose usage call succeeded and whose probing of the
\* allocation ended with allocated = 0
ZeroAllocations ==
    {inv \in Invocations :
        /\ inv.method = "get_storage_info"
        /\ inv.calls[1].ok
        /\ ~allocated_of(inv.calls[1].answer.value.allocation).raised
        /\ allocated_of(inv.calls[1].answer.value.allocation).value = 0}

\* C6: when the allocated capacity get_storage_info determines is 0, it
\* returns a usage record (not an error record) with used_percentage = 0,
\* whatever the used bytes are.
C6_ZeroAllocationZeroPercent ==
    \A inv \in ZeroAllocations :
        /\ ~inv.raised
        /\ ~HasError(inv.ret)
        /\ inv.ret.val.used_percentage = Zero

\* C6 witness: bytes in use, nothing allocated, 0 percent reported.
C6_Witness ==
    \E inv \in ZeroAllocations :
        /\ inv.calls[1].answer.value.used > 0
        /\ ~HasError(inv.ret)
        /\ inv.ret.val.used_percentage = Zero

SizeFields == {"size", "size_mb", "modified"}

\* list_folder whose remote listing succeeded
Listings == {inv \in Invocations : inv.method = "list_folder" /\ inv.calls[1].ok}

\* C7: a successful list_folder returns one item per remote entry, in order,
\* with the entry's name and lowercase path; is_folder is true exactly for
\* folder entries, and the size fields are there exactly for file entries.
C7_ListFolderShape ==
    \A inv \in Listings :
        LET entries == inv.calls[1].answer.value
            items == inv.ret.val
        IN  /\ ~inv.raised
            /\ inv.ret.kind = "list"
            /\ Len(items) = Len(entries)
            /\ \A i \in 1..Len(entries) :
                   /\ items[i].name = entries[i].name
                   /\ items[i].path = entries[i].path_lower
                   /\ items[i].is_folder = (entries[i].variant = "folder")
                   /\ entries[i].variant = "file" =>
                          /\ SizeFields \subseteq DOMAIN items[i]
                          /\ items[i].size = entries[i].size
                          /\ items[i].modified = entries[i].server_modified
                   /\ entries[i].variant # "file" =>
                          SizeFields \cap DOMAIN items[i] = {}

\* C7 witness: a listing of one file and one folder gave two items, only the
\* file's with size fields.
C7_Witness ==
    \E inv \in Listings :
        LET entries == inv.calls[1].answer.value
            items == inv.ret.val
        IN  /\ Len(entries) = 2
            /\ entries[1].variant = "file" /\ entries[2].variant = "folder"
            /\ Len(items) = 2
            /\ SizeFields \subseteq DOMAIN items[1]
            /\ SizeFields \cap DOMAIN items[2] = {}
            /\ items[2].is_folder /\ ~items[1].is_folder

\* the remote calls of one invocation: a single one, or create_shared_link's
\* create call that threw "already exists" followed by its one lookup
CallShape(inv) ==
    \/ Len(inv.calls) <= 1
    \/ /\ inv.method = "create_shared_link"
       /\ Len(inv.calls) = 2
       /\ inv.calls[1].op = "sharing_create_shared_link_with_settings"
       /\ ~inv.calls[1].ok
       /\ inv.calls[1].answer.exc.already_exists
       /\ inv.calls[2].op = "sharing_list_shared_links"

NoRepeat(inv) ==
    \A i, j \in DOMAIN inv.calls : i # j => inv.calls[i].op # inv.calls[j].op

\* C8, as claimed: an adapter method issues one remote call (create_shared_link
\* one more, the lookup after "already exists"), never the same operation twice,
\* and a failed call is reported in the return value.
C8_NoRetryFailureReported ==
    \A inv \in Invocations :
        /\ CallShape(inv)
        /\ NoRepeat(inv)
        /\ AnyFailed(inv) => IsErrorRecord(inv)

\* C8, amended: an adapter method issues one remote call (create_shared_link
\* one more, the lookup after "already exists"), never the same operation
\* twice; a failed call is reported in the return value, except the "already
\* exists" failure of create_shared_link when the lookup then finds a link.
C8_NoRetry ==
    \A inv \in Invocations :
        /\ CallShape(inv)
        /\ NoRepeat(inv)
        /\ AnyFailed(inv) /\ ~RecoveredLink(inv) => IsErrorRecord(inv)

\* C8 witness: delete_item whose only remote call failed and was reported.
C8_Witness ==
    \E inv \in Invocations :
        /\ inv.method = "delete_item"
        /\ Len(inv.calls) = 1
        /\ ~inv.calls[1].ok
        /\ IsErrorRecord(inv)

Abs(x) == IF x < 0 THEN -x ELSE x

\* h hundredths is b / MB rounded to two decimals: no hundredth is nearer,
\* and of two equally near ones it is the even one
IsRounded(h, b) ==
    /\ 2 * Abs(h * MB - b * 100) <= MB
    /\ 2 * Abs(h * MB - b * 100) = MB => h % 2 = 0

\* C9: _bytes_to_mb(None) is 0; for b >= 0 its result is b / (1024 * 1024)
\* rounded to two decimals, 0 for b = 0, and no smaller than the result for
\* any smaller b.
C9_BytesToMb ==
    /\ bytes_value.none => mb = 0
    /\ ~bytes_value.none =>
           /\ IsRounded(mb, bytes_value.v)
           /\ bytes_value.v = 0 => mb = 0
           /\ ~prev_bytes.none /\ prev_bytes.v <= bytes_value.v => prev_mb <= mb

\* C9 witness: 3/16 MB gave 0.19 after a smaller input gave less.
C9_Witness ==
    /\ ~bytes_value.none /\ ~prev_bytes.none
    /\ bytes_value.v = 3 * ByteStep
    /\ mb = 19
    /\ prev_bytes.v < bytes_value.v
    /\ prev_mb < mb

\* C10, as claimed: no request reassigns the adapter reference, and no request
\* leaves a temporary file behind.
C10_NothingOutlivesTheRequest ==
    [][dbx_service' = dbx_service /\ tmp_files' = 0]_vars

\* get_storage_info whose usage call succeeded with an allocation of a shape
\* the provider returns: the SDK's union tagged individual or team, or an
\* object with none of the probed fields
ProviderAllocations ==
    {inv \in Invocations :
        /\ inv.method = "get_storage_info"
        /\ inv.calls[1].ok
        /\ inv.calls[1].answer.value.allocation.attrs \in {SdkUnionAttrs, {}}}

\* C11, as claimed: for an individual allocation, a team allocation and an
\* allocation with none of the known fields get_storage_info returns a usage
\* record, not an error record; allocated is the individual or team
\* allocation when there is one, and allocated and free are both 0 when the
\* allocation cannot be determined.
C11_AllocationNormalized ==
    \A inv \in ProviderAllocations :
        LET allocation == inv.calls[1].answer.value.allocation
        IN  /\ ~inv.raised
            /\ ~HasError(inv.ret)
            /\ allocation.attrs = SdkUnionAttrs =>
                   inv.ret.val.allocated = bytes_to_mb(Some(allocation.allocated))
            /\ allocation.attrs = {} =>
                   inv.ret.val.allocated = 0 /\ inv.ret.val.free = 0

=============================================================================
